---- MODULE Spec2Model ----
(***************************************************************************)
(* Model of src/app.py: the transformer safety bot.                        *)
(*                                                                         *)
(* One asyncio event loop runs the poll task (poll_firebase_task), the     *)
(* command handlers and the startup/shutdown hooks.  Code between two      *)
(* awaits runs without interleaving, so the other tasks act only while the *)
(* poll task is parked at an await (PollParked).                           *)
(*                                                                         *)
(* The store (Firebase) holds two groups of fields.  The fields the        *)
(* command handlers write are kept in the variable store.  The sensor      *)
(* fields are written by the external sensor feed only, at any time, so    *)
(* every read draws them afresh from the payload samples below.            *)
(***************************************************************************)
EXTENDS Integers, Sequences, FiniteSets, TLC

\* ------------------------------------------------------------------ bounds
\* Longest recipient list (entries of AUTHORIZED_CHAT_IDS after split(",")).
MaxChats == 2
\* Number of poll cycles a run starts.
MaxCycles == 3
\* Largest threshold of the small zone configurations.
MaxThreshold == 3

\* ------------------------------------------------------- program constants
CURRENT_THRESHOLD == 2
TEMP_THRESHOLD == 50
WARNING_ZONE_CM == 1000
DANGER_ZONE_CM == 500

\* ------------------------------------------------------------ store values
\* A JSON value of the store, by what the code can tell apart.
Missing == [kind |-> "missing", val |-> 0]
Num(n) == [kind |-> "num", val |-> n]
Bool(b) == [kind |-> "bool", val |-> IF b THEN 1 ELSE 0]
\* a string float() parses to the finite number n, e.g. "50"
NumStr(n) == [kind |-> "numstr", val |-> n]
\* the string "nan": float() parses it, to the float NaN
NanStr == [kind |-> "nanstr", val |-> 0]
\* a string float() rejects with ValueError, e.g. "abc"
BadStr == [kind |-> "badstr", val |-> 0]
\* a value float() rejects with TypeError, e.g. a non-empty list
BadType == [kind |-> "badtype", val |-> 0]

\* Payloads the sensor feed may have left in each sensor field.
DistSamples ==
    {Missing, Num(DANGER_ZONE_CM), Num(WARNING_ZONE_CM), Num(WARNING_ZONE_CM + 1), BadStr}
TempSamples == {Missing, NumStr(TEMP_THRESHOLD), NanStr, BadType}
CurrentSamples == {Missing, Num(CURRENT_THRESHOLD + 1), NanStr, BadStr}

SensorFields == {"distance_cm", "temperature_c", "current_a"}
CommandFields == {"relay_status", "relay_on", "earth_rod_status", "maintenance_mode"}

\* The snapshots of the sensor fields a read may see.
Feeds ==
    [distance_cm : DistSamples, temperature_c : TempSamples, current_a : CurrentSamples]
\* One of them: all three detectors fire.
AlarmFeed ==
    [distance_cm |-> Num(DANGER_ZONE_CM), temperature_c |-> NumStr(TEMP_THRESHOLD),
     current_a |-> Num(CURRENT_THRESHOLD + 1)]

\* Python truthiness of a store value, as used by `x or 0.0`.
Truthy(p) ==
    CASE p.kind = "missing" -> FALSE
      [] p.kind \in {"num", "bool"} -> p.val # 0
      [] OTHER -> TRUE

\* A Python float: NaN or a number; raised marks a conversion that raised.
Float(n) == [raised |-> FALSE, nan |-> FALSE, v |-> n]
NaN == [raised |-> FALSE, nan |-> TRUE, v |-> 0]
Raised == [raised |-> TRUE, nan |-> FALSE, v |-> 0]

\* float(p or 0.0)
FloatOrZero(p) ==
    IF ~Truthy(p) THEN Float(0)
    ELSE CASE p.kind \in {"num", "bool", "numstr"} -> Float(p.val)
           [] p.kind = "nanstr" -> NaN
           [] OTHER -> Raised

\* Comparisons of a float with a threshold: every comparison with NaN is false.
Gt(x, t) == ~x.nan /\ x.v > t
Le(x, t) == ~x.nan /\ x.v <= t
Ge(x, t) == ~x.nan /\ x.v >= t
Lt(x, t) == ~x.nan /\ x.v < t

\* ------------------------------------------------------------ configuration
\* Chat identifiers; "" is the empty entry split(",") yields for an unset or
\* empty variable and for a trailing comma.
Chats == {"", "a", "b"}
\* Senders of inbound commands; "" is an update with no effective chat,
\* "x" is a chat that no configuration lists.
Senders == {"", "a", "x"}

Range(s) == {s[k] : k \in 1..Len(s)}

\* The lists AUTHORIZED_CHAT_IDS may hold: split(",") never yields an empty
\* list; the recipient set names each identifier once.
Configs ==
    {s \in UNION {[1..n -> Chats] : n \in 1..MaxChats} :
        \A j, k \in 1..Len(s) : j # k => s[j] # s[k]}

\* ------------------------------------------------------------------- state
VARIABLES
    AUTHORIZED_CHAT_IDS, \* the recipient list, fixed at import
    store,               \* the command-written fields of the store
    last_state,          \* the poller's alert state
    app,                 \* lifecycle: "init", "up", "stopping", "down", "failed"
    bg_task,             \* "None" or "task"
    pc,                  \* where the poll task stands
    det,                 \* the detector whose block the poll task is in
    i,                   \* index of the for loop over AUTHORIZED_CHAT_IDS
    zone, temp, current, \* locals of the running cycle
    sent,                \* send_message attempts of the notification in progress
    h,                   \* the command handler in flight, or the last one run
    notes,               \* notifications the running cycle has emitted
    pre,                 \* last_state as the running cycle found it
    prev,                \* classification of the cycle completed just before
    readFailed,          \* whether the running cycle's store read failed
    cycles,              \* cycles started
    nFault, nRise,       \* overcurrent notifications; false->true transitions
    probe,               \* a call of one of the program's functions on its own
    tasks                \* number of poll tasks created and not ended

vars ==
    <<AUTHORIZED_CHAT_IDS, store, last_state, app, bg_task, pc, det, i, zone,
      temp, current, sent, h, notes, pre, prev, readFailed, cycles, nFault, nRise,
      probe, tasks>>

pollVars ==
    <<last_state, pc, det, i, zone, temp, current, sent, notes, pre, prev,
      readFailed, cycles, nFault, nRise>>

\* The poll task is parked at an await, not yet created, or finished.
PollParked == pc \in {"none", "start", "await", "sleep", "cancelled", "raised"}
\* No command handler is running: none is in flight, or one awaits its reply.
HandlerParked == h.pc \in {"none", "reply"}
\* The poll task exists and has neither returned nor raised.
TaskRunning == bg_task = "task" /\ pc \notin {"none", "cancelled", "raised"}
\* on_shutdown has called bg_task.cancel() and is parked at `await bg_task`:
\* the next step of the poll task is the CancelledError at its await.
CancelRequested == app = "stopping"

\* -------------------------------------------------------------- store gateway
\* Mutant: a failed read falls back on the values the feed holds.
get_data_stale(ok, feed) ==
    [f \in SensorFields \cup CommandFields |->
        IF f \in SensorFields THEN feed[f] ELSE store[f]]

\* get_data: the whole store, or {} when the store is empty or the read raises.
get_data(ok, feed) ==
    [f \in SensorFields \cup CommandFields |->
        IF ~ok THEN Missing
        ELSE IF f \in SensorFields THEN feed[f] ELSE store[f]]

\* Mutant: update_data lets the write error through to the handler.
update_data_raises(pairs, ok) ==
    [store |-> [f \in DOMAIN store |->
                   IF ok /\ f \in DOMAIN pairs THEN pairs[f] ELSE store[f]],
     raised |-> ~ok]

\* Mutant: update_data returns without writing.
update_data_dropped(pairs, ok) == [store |-> store, raised |-> FALSE]

\* update_data: the store after update(pairs), unchanged when the write
\* raises; the error is logged and never reaches the caller.
update_data(pairs, ok) ==
    [store |-> [f \in DOMAIN store |->
                   IF ok /\ f \in DOMAIN pairs THEN pairs[f] ELSE store[f]],
     raised |-> FALSE]

\* ------------------------------------------------------------------ poller
\* isinstance(p, (int, float)): a JSON number, or a JSON boolean (bool is a
\* subclass of int; True is 1 and False is 0).
IsNumber(p) == p.kind \in {"num", "bool"}

\* Mutant: the danger zone ends just below its threshold.
ZoneOfStrict(dist_cm, danger, warning) ==
    IF IsNumber(dist_cm) /\ dist_cm.val > 0
    THEN IF dist_cm.val < danger THEN "danger"
         ELSE IF dist_cm.val <= warning THEN "warning"
         ELSE "none"
    ELSE "none"

\* Lines 166-173: the zone of a distance payload, for the thresholds given.
ZoneOf(dist_cm, danger, warning) ==
    IF IsNumber(dist_cm) /\ dist_cm.val > 0
    THEN IF dist_cm.val <= danger THEN "danger"
         ELSE IF dist_cm.val <= warning THEN "warning"
         ELSE "none"
    ELSE "none"

\* Lines 166-173 with the thresholds of lines 26-27.
Zone(dist_cm) == ZoneOf(dist_cm, DANGER_ZONE_CM, WARNING_ZONE_CM)

\* Mutant: a zone is reported only when no zone was reported before.
ZoneBranchFromNone(z, human_zone) ==
    IF z = "warning" /\ human_zone = "None" THEN "warning"
    ELSE IF z = "danger" /\ human_zone = "None" THEN "danger"
    ELSE IF z = "none" THEN "reset"
    ELSE "keep"

\* Lines 176-187: the branch the zone block takes.
ZoneBranch(z, human_zone) ==
    IF z = "warning" /\ human_zone # "warning" THEN "warning"
    ELSE IF z = "danger" /\ human_zone # "danger" THEN "danger"
    ELSE IF z = "none" THEN "reset"
    ELSE "keep"

\* Mutant: the overcurrent block reports the level, not the edge.
FaultBranchLevel(c, fault) ==
    IF Gt(c, CURRENT_THRESHOLD) THEN "notify"
    ELSE IF Le(c, CURRENT_THRESHOLD) THEN "reset"
    ELSE "keep"

\* Lines 190-196: the branch the overcurrent block takes.
FaultBranch(c, fault) ==
    IF Gt(c, CURRENT_THRESHOLD) /\ ~fault THEN "notify"
    ELSE IF Le(c, CURRENT_THRESHOLD) THEN "reset"
    ELSE "keep"

\* Mutant: the high temperature is not reported while a person is in the
\* danger zone.
TempBranchUnlessDanger(t, temp_high) ==
    IF Ge(t, TEMP_THRESHOLD) /\ ~temp_high /\ last_state.human_zone # "danger" THEN "notify"
    ELSE IF Lt(t, TEMP_THRESHOLD) THEN "reset"
    ELSE "keep"

\* Lines 199-205: the branch the temperature block takes.
TempBranch(t, temp_high) ==
    IF Ge(t, TEMP_THRESHOLD) /\ ~temp_high THEN "notify"
    ELSE IF Lt(t, TEMP_THRESHOLD) THEN "reset"
    ELSE "keep"

\* The classification of the running cycle, from its locals.
Over == Gt(current, CURRENT_THRESHOLD)
High == Ge(temp, TEMP_THRESHOLD)
Classification == [valid |-> TRUE, zone |-> zone, overcurrent |-> Over, temp_high |-> High]
NoClassification == [valid |-> FALSE, zone |-> "none", overcurrent |-> FALSE, temp_high |-> FALSE]

\* Lines 160-173: top of the loop, up to the classification, with the sensor
\* fields drawn from F.
PollReadFrom(F) ==
    /\ pc \in {"start", "sleep"}
    /\ ~CancelRequested
    /\ HandlerParked
    /\ cycles < MaxCycles
    /\ \E ok \in BOOLEAN, feed \in F :
        LET d == get_data(ok, feed)
            t == FloatOrZero(d["temperature_c"])
            c == FloatOrZero(d["current_a"])
            wasOver == pc = "sleep" /\ Over
        IN  /\ readFailed' = ~ok
            /\ IF t.raised \/ c.raised
               THEN /\ pc' = "raised"
                    /\ tasks' = tasks - 1
                    /\ UNCHANGED <<zone, temp, current, nRise>>
               ELSE /\ pc' = "zone"
                    /\ tasks' = tasks
                    /\ zone' = Zone(d["distance_cm"])
                    /\ temp' = t
                    /\ current' = c
                    /\ nRise' = IF Gt(c, CURRENT_THRESHOLD) /\ ~wasOver
                                THEN nRise + 1 ELSE nRise
    /\ prev' = IF pc = "sleep" THEN Classification ELSE NoClassification
    /\ pre' = last_state
    /\ notes' = <<>>
    /\ sent' = <<>>
    /\ det' = "zone"
    /\ i' = 0
    /\ cycles' = cycles + 1
    /\ UNCHANGED <<probe, AUTHORIZED_CHAT_IDS, store, last_state, app, bg_task, h, nFault>>

PollRead == PollReadFrom(Feeds)

\* Entering a notification block: the decision is taken, the for loop starts.
Emit(d, text) ==
    /\ notes' = Append(notes, [det |-> d, text |-> text])
    /\ sent' = <<>>
    /\ det' = d
    /\ i' = 1
    /\ pc' = "for"

\* Lines 176-187: zone transitions.
ZoneCheck ==
    /\ pc = "zone"
    /\ LET b == ZoneBranch(zone, last_state.human_zone)
       IN  CASE b = "warning" -> Emit("zone", "warning") /\ UNCHANGED last_state
             [] b = "danger" -> Emit("zone", "danger") /\ UNCHANGED last_state
             [] b = "reset" ->
                  /\ last_state' = [last_state EXCEPT !.human_zone = "None"]
                  /\ pc' = "fault"
                  /\ UNCHANGED <<notes, sent, det, i>>
             [] OTHER ->
                  /\ pc' = "fault"
                  /\ UNCHANGED <<last_state, notes, sent, det, i>>
    /\ UNCHANGED <<probe, tasks, AUTHORIZED_CHAT_IDS, store, app, bg_task, zone, temp, current,
                   h, pre, prev, readFailed, cycles, nFault, nRise>>

\* Lines 190-196: overcurrent.
FaultCheck ==
    /\ pc = "fault"
    /\ LET b == FaultBranch(current, last_state.fault)
       IN  CASE b = "notify" ->
                  /\ Emit("fault", "overcurrent")
                  /\ nFault' = nFault + 1
                  /\ UNCHANGED last_state
             [] b = "reset" ->
                  /\ last_state' = [last_state EXCEPT !.fault = FALSE]
                  /\ pc' = "temp"
                  /\ UNCHANGED <<notes, sent, det, i, nFault>>
             [] OTHER ->
                  /\ pc' = "temp"
                  /\ UNCHANGED <<last_state, notes, sent, det, i, nFault>>
    /\ UNCHANGED <<probe, tasks, AUTHORIZED_CHAT_IDS, store, app, bg_task, zone, temp, current,
                   h, pre, prev, readFailed, cycles, nRise>>

\* Lines 199-207: temperature, then the loop's sleep.
TempCheck ==
    /\ pc = "temp"
    /\ LET b == TempBranch(temp, last_state.temp_high)
       IN  CASE b = "notify" -> Emit("temp", "hightemp") /\ UNCHANGED last_state
             [] b = "reset" ->
                  /\ last_state' = [last_state EXCEPT !.temp_high = FALSE]
                  /\ pc' = "sleep"
                  /\ UNCHANGED <<notes, sent, det, i>>
             [] OTHER ->
                  /\ pc' = "sleep"
                  /\ UNCHANGED <<last_state, notes, sent, det, i>>
    /\ UNCHANGED <<probe, tasks, AUTHORIZED_CHAT_IDS, store, app, bg_task, zone, temp, current,
                   h, pre, prev, readFailed, cycles, nFault, nRise>>

\* Lines 177-178 (and 182-183, 191-192, 200-201): `for chat in ...: if chat:`.
\* A non-empty entry leads to the await of safe_send; an empty one is skipped.
ForChat ==
    /\ pc = "for"
    /\ IF i > Len(AUTHORIZED_CHAT_IDS) THEN pc' = "set" /\ i' = i
       ELSE IF AUTHORIZED_CHAT_IDS[i] # "" THEN pc' = "await" /\ i' = i
       ELSE pc' = "for" /\ i' = i + 1
    /\ UNCHANGED <<probe, tasks, AUTHORIZED_CHAT_IDS, store, last_state, app, bg_task, det, zone,
                   temp, current, sent, h, notes, pre, prev, readFailed, cycles,
                   nFault, nRise>>

\* Mutant: safe_send lets the delivery error through to the poll task.
safe_send_raises(ok) == IF ok THEN "for" ELSE "raised"

\* Lines 63-67: where safe_send leaves its caller once send_message has
\* returned (ok) or raised an Exception (not ok): the error is logged.
safe_send(ok) == "for"

\* The await of safe_send returns: the message was delivered, or the delivery failed.
SendReturn ==
    /\ pc = "await"
    /\ ~CancelRequested
    /\ HandlerParked
    /\ \E ok \in BOOLEAN :
        /\ sent' = Append(sent, [chat |-> AUTHORIZED_CHAT_IDS[i],
                                 text |-> notes[Len(notes)].text, ok |-> ok])
        /\ pc' = safe_send(ok)
    /\ i' = i + 1
    /\ tasks' = IF pc' = "raised" THEN tasks - 1 ELSE tasks
    /\ UNCHANGED <<probe, AUTHORIZED_CHAT_IDS, store, last_state, app, bg_task, det, zone,
                   temp, current, h, notes, pre, prev, readFailed, cycles,
                   nFault, nRise>>

\* Lines 180, 185, 194, 203: the assignment that follows the for loop.
SetState ==
    /\ pc = "set"
    /\ CASE det = "zone" ->
              /\ last_state' = [last_state EXCEPT !.human_zone = notes[Len(notes)].text]
              /\ pc' = "fault"
         [] det = "fault" ->
              /\ last_state' = [last_state EXCEPT !.fault = TRUE]
              /\ pc' = "temp"
         [] OTHER ->
              /\ last_state' = [last_state EXCEPT !.temp_high = TRUE]
              /\ pc' = "sleep"
    /\ UNCHANGED <<probe, tasks, AUTHORIZED_CHAT_IDS, store, app, bg_task, det, i, zone, temp,
                   current, sent, h, notes, pre, prev, readFailed, cycles,
                   nFault, nRise>>

\* --------------------------------------------------------------- lifecycle
\* Mutant: on_startup creates a poll task whether or not there is one.
on_startup_always ==
    /\ app \in {"init", "down", "up"}
    /\ HandlerParked
    /\ PollParked
    /\ app' = "up"
    /\ bg_task' = "task" /\ pc' = "start" /\ tasks' = tasks + 1
    /\ UNCHANGED <<probe, AUTHORIZED_CHAT_IDS, store, last_state, det, i, zone, temp,
                   current, sent, h, notes, pre, prev, readFailed, cycles,
                   nFault, nRise>>

\* Lines 213-220: on_startup creates the poll task if bg_task is None.  In a
\* service that is up, a further startup event finds bg_task set (or raises
\* in application.start() before it gets there) and changes nothing.
on_startup ==
    /\ app \in {"init", "down", "up"}
    /\ HandlerParked
    /\ PollParked
    /\ app' = "up"
    /\ IF bg_task = "None"
       THEN bg_task' = "task" /\ pc' = "start" /\ tasks' = tasks + 1
       ELSE UNCHANGED <<bg_task, pc, tasks>>
    /\ UNCHANGED <<probe, AUTHORIZED_CHAT_IDS, store, last_state, det, i, zone, temp,
                   current, sent, h, notes, pre, prev, readFailed, cycles,
                   nFault, nRise>>

\* Lines 222-229: on_shutdown up to its `await bg_task`.  cancel() on a task
\* that is still running only requests the cancellation, and the await parks
\* on_shutdown until the task has ended.  On a task that has ended, cancel()
\* does nothing and the await returns at once: with CancelledError, which
\* line 228 catches, or with the exception the task ended with, which leaves
\* on_shutdown before application.stop().
on_shutdown ==
    /\ app = "up"
    /\ PollParked
    /\ HandlerParked
    /\ app' = IF TaskRunning THEN "stopping"
              ELSE IF bg_task = "task" /\ pc = "raised" THEN "failed"
              ELSE "down"
    /\ UNCHANGED <<probe, tasks, AUTHORIZED_CHAT_IDS, store, last_state, bg_task, pc, det, i, zone,
                   temp, current, sent, h, notes, pre, prev, readFailed, cycles,
                   nFault, nRise>>

\* The requested cancellation reaches the poll task: CancelledError is thrown
\* into the await the task is parked at (lines 179, 184, 193, 202, 207, or the
\* task's first step).  CancelledError is not an Exception, so safe_send does
\* not catch it and the task ends there.  The send in flight may or may not
\* have reached its recipient.
CancelledError ==
    /\ CancelRequested
    /\ TaskRunning
    /\ PollParked
    /\ pc' = "cancelled"
    /\ IF pc = "await"
       THEN \E delivered \in BOOLEAN :
              sent' = Append(sent, [chat |-> AUTHORIZED_CHAT_IDS[i],
                                    text |-> notes[Len(notes)].text,
                                    ok |-> delivered])
       ELSE sent' = sent
    /\ tasks' = tasks - 1
    /\ UNCHANGED <<probe, AUTHORIZED_CHAT_IDS, store, last_state, app, bg_task, det, i, zone,
                   temp, current, h, notes, pre, prev, readFailed, cycles,
                   nFault, nRise>>

\* Mutant: on_shutdown stops the application without awaiting the task.
on_shutdown_resume_early ==
    /\ CancelRequested
    /\ HandlerParked
    /\ app' = "down"
    /\ UNCHANGED <<probe, tasks, AUTHORIZED_CHAT_IDS, store, last_state, bg_task, pc, det, i, zone,
                   temp, current, sent, h, notes, pre, prev, readFailed, cycles,
                   nFault, nRise>>

\* Lines 227-233: `await bg_task` returns once the task has ended; the
\* CancelledError is caught, the application is stopped and shut down.
on_shutdown_resume ==
    /\ CancelRequested
    /\ ~TaskRunning
    /\ HandlerParked
    /\ app' = "down"
    /\ UNCHANGED <<probe, tasks, AUTHORIZED_CHAT_IDS, store, last_state, bg_task, pc, det, i, zone,
                   temp, current, sent, h, notes, pre, prev, readFailed, cycles,
                   nFault, nRise>>

\* ---------------------------------------------------------------- commands
Commands ==
    {"start", "status", "maintenance_on", "maintenance_off", "relay_open",
     "relay_close", "earthrod_on", "earthrod_off"}
Mutating == Commands \ {"start", "status"}

\* Mutant: the relay handlers leave the mirror field relay_on alone.
MutationNoMirror(cmd) ==
    CASE cmd = "maintenance_on" -> [maintenance_mode |-> Bool(TRUE)]
      [] cmd = "maintenance_off" -> [maintenance_mode |-> Bool(FALSE)]
      [] cmd = "relay_open" -> [relay_status |-> Num(0)]
      [] cmd = "relay_close" -> [relay_status |-> Num(1)]
      [] cmd = "earthrod_on" -> [earth_rod_status |-> Num(1)]
      [] cmd = "earthrod_off" -> [earth_rod_status |-> Num(0)]

\* Lines 113, 118, 124, 129, 134, 139: the pairs each handler passes to update_data.
Mutation(cmd) ==
    CASE cmd = "maintenance_on" -> [maintenance_mode |-> Bool(TRUE)]
      [] cmd = "maintenance_off" -> [maintenance_mode |-> Bool(FALSE)]
      [] cmd = "relay_open" -> [relay_status |-> Num(0), relay_on |-> Bool(FALSE)]
      [] cmd = "relay_close" -> [relay_status |-> Num(1), relay_on |-> Bool(TRUE)]
      [] cmd = "earthrod_on" -> [earth_rod_status |-> Num(1)]
      [] cmd = "earthrod_off" -> [earth_rod_status |-> Num(0)]

\* The text each handler passes to reply_text (without its leading pictograph);
\* the lines of the status report are not told apart here.
Confirmation(cmd) ==
    CASE cmd = "start" -> "Transformer Safety Bot ready. ..."
      [] cmd = "status" -> "Transformer Status ..."
      [] cmd = "maintenance_on" -> "Maintenance mode: ON"
      [] cmd = "maintenance_off" -> "Maintenance mode: OFF"
      [] cmd = "relay_open" -> "Relay: OPEN requested"
      [] cmd = "relay_close" -> "Relay: CLOSED requested"
      [] cmd = "earthrod_on" -> "Earth rod: ENGAGE requested"
      [] cmd = "earthrod_off" -> "Earth rod: RETRACT requested"

\* The lines of the status report.  A line shows N/A, a word, or a number:
\* the distance in metres with two decimals (whole metres and centimetres),
\* the current with two and the temperature with one decimal (the readings
\* modelled are whole numbers), the latter with its (HIGH!) mark.
NA(label) == [label |-> label, na |-> TRUE, word |-> "", n |-> 0, frac |-> 0, high |-> FALSE]
Word(label, w) == [label |-> label, na |-> FALSE, word |-> w, n |-> 0, frac |-> 0, high |-> FALSE]
Number(label, n, frac, high) ==
    [label |-> label, na |-> FALSE, word |-> "", n |-> n, frac |-> frac, high |-> high]
YesNo(label, p) == Word(label, IF Truthy(p) THEN "YES" ELSE "NO")

\* Mutant: the distance line is shown for every number, positive or not.
StatusReportAnyNumber(d) ==
    << Word("Transformer Status", ""),
       IF IsNumber(d["distance_cm"])
       THEN Number("Distance", d["distance_cm"].val \div 100, d["distance_cm"].val % 100, FALSE)
       ELSE NA("Distance"),
       YesNo("Human detected", d["human_detected"]),
       IF IsNumber(d["current_a"])
       THEN Number("Current", d["current_a"].val, 0, FALSE) ELSE NA("Current"),
       IF IsNumber(d["temperature_c"])
       THEN Number("Temperature", d["temperature_c"].val, 0,
                   d["temperature_c"].val >= TEMP_THRESHOLD)
       ELSE NA("Temperature"),
       YesNo("Overcurrent", d["current_fault"]),
       YesNo("Relay (closed)", d["relay_status"]),
       YesNo("Earth rod engaged", d["earth_rod_status"]),
       Word("Maintenance mode", IF Truthy(d["maintenance_mode"]) THEN "ON" ELSE "OFF") >>

\* Lines 83-108: the parts of the status report, from the snapshot d.
StatusReport(d) ==
    << Word("Transformer Status", ""),
       IF IsNumber(d["distance_cm"]) /\ d["distance_cm"].val > 0
       THEN Number("Distance", d["distance_cm"].val \div 100, d["distance_cm"].val % 100, FALSE)
       ELSE NA("Distance"),
       YesNo("Human detected", d["human_detected"]),
       IF IsNumber(d["current_a"])
       THEN Number("Current", d["current_a"].val, 0, FALSE) ELSE NA("Current"),
       IF IsNumber(d["temperature_c"])
       THEN Number("Temperature", d["temperature_c"].val, 0,
                   d["temperature_c"].val >= TEMP_THRESHOLD)
       ELSE NA("Temperature"),
       YesNo("Overcurrent", d["current_fault"]),
       YesNo("Relay (closed)", d["relay_status"]),
       YesNo("Earth rod engaged", d["earth_rod_status"]),
       Word("Maintenance mode", IF Truthy(d["maintenance_mode"]) THEN "ON" ELSE "OFF") >>

\* Mutant: the handlers run for every sender.
is_authorized_open(chat_id) == TRUE

\* Lines 59-61: chat_id is "" for an update with no effective chat.
is_authorized(chat_id) == chat_id \in Range(AUTHORIZED_CHAT_IDS)

\* Where a handler stands once it calls update.message.reply_text: an update
\* with no effective chat has no message, and the attribute access raises.
ReplyCall(sender) == IF sender = "" THEN "raised" ELSE "reply"

\* Lines 80-109: status_cmd from its call to its await of reply_text, for the
\* snapshot d its get_data call returns: whether it raised, and the texts it
\* passed to reply_text.
status_cmd(sender, d) ==
    IF ~is_authorized(sender) THEN [raised |-> FALSE, replies |-> <<>>]
    ELSE IF ReplyCall(sender) = "raised" THEN [raised |-> TRUE, replies |-> <<>>]
    ELSE [raised |-> FALSE, replies |-> <<StatusReport(d)>>]

\* Lines 70-140: a command handler, from its call to its await of reply_text.
\* writes are its update_data calls, reads its get_data calls.
Command(sender, cmd) ==
    /\ app = "up"
    /\ PollParked
    /\ h.pc = "none"
    /\ IF ~is_authorized(sender)
       THEN /\ h' = [pc |-> "done", sender |-> sender, cmd |-> cmd, writes |-> <<>>,
                     reads |-> 0, replies |-> <<>>]
            /\ store' = store
       ELSE IF cmd \in Mutating
       THEN \E ok \in BOOLEAN :
              LET w == update_data(Mutation(cmd), ok)
              IN  /\ store' = w.store
                  /\ h' = [pc |-> IF w.raised THEN "raised" ELSE ReplyCall(sender),
                           sender |-> sender, cmd |-> cmd,
                           writes |-> <<[pairs |-> Mutation(cmd), ok |-> ok]>>,
                           reads |-> 0, replies |-> <<>>]
       ELSE /\ h' = [pc |-> ReplyCall(sender), sender |-> sender, cmd |-> cmd,
                     writes |-> <<>>, reads |-> IF cmd = "status" THEN 1 ELSE 0,
                     replies |-> <<>>]
            /\ store' = store
    /\ UNCHANGED <<probe, tasks, AUTHORIZED_CHAT_IDS, app, bg_task>>
    /\ UNCHANGED pollVars

Handle == \E sender \in Senders, cmd \in Commands : Command(sender, cmd)

\* The await of reply_text returns: the text reached the sender, or the
\* delivery raised, which ends the handler with that exception.
Reply ==
    /\ h.pc = "reply"
    /\ PollParked
    /\ \E ok \in BOOLEAN :
        h' = [h EXCEPT !.replies = Append(@, [to |-> h.sender,
                                              text |-> Confirmation(h.cmd),
                                              ok |-> ok]),
                       !.pc = IF ok THEN "done" ELSE "raised"]
    /\ UNCHANGED <<probe, tasks, AUTHORIZED_CHAT_IDS, store, app, bg_task>>
    /\ UNCHANGED pollVars

NoHandler ==
    [pc |-> "none", sender |-> "", cmd |-> "start", writes |-> <<>>, reads |-> 0,
     replies |-> <<>>]

\* Mutant: a handler clears the alert state when it returns.
ReturnClears ==
    /\ h.pc \in {"done", "raised"}
    /\ h' = NoHandler
    /\ last_state' = [human_zone |-> "None", fault |-> FALSE, temp_high |-> FALSE]
    /\ UNCHANGED <<probe, tasks, AUTHORIZED_CHAT_IDS, store, app, bg_task, pc, det, i, zone,
                   temp, current, sent, notes, pre, prev, readFailed, cycles,
                   nFault, nRise>>

\* The handler returns (or its exception reaches the dispatcher, which logs it).
Return ==
    /\ h.pc \in {"done", "raised"}
    /\ h' = NoHandler
    /\ UNCHANGED <<probe, tasks, AUTHORIZED_CHAT_IDS, store, app, bg_task>>
    /\ UNCHANGED pollVars

\* ------------------------------------------------------------ specification

NoProbe == [fn |-> "none"]

\* The service after import: nothing has run yet.
InitService ==
    /\ AUTHORIZED_CHAT_IDS \in Configs
    /\ last_state = [human_zone |-> "None", fault |-> FALSE, temp_high |-> FALSE]
    /\ app = "init"
    /\ bg_task = "None"
    /\ pc = "none"
    /\ det = "zone"
    /\ i = 0
    /\ zone = "none"
    /\ temp = Float(0)
    /\ current = Float(0)
    /\ sent = <<>>
    /\ h = NoHandler
    /\ notes = <<>>
    /\ pre = last_state
    /\ prev = NoClassification
    /\ readFailed = FALSE
    /\ cycles = 0
    /\ nFault = 0
    /\ nRise = 0
    /\ tasks = 0

\* The store before any command has written to it.
EmptyStore == [f \in CommandFields |-> Missing]

Init == InitService /\ store = EmptyStore /\ probe = NoProbe

\* The whole service.
Next ==
    \/ on_startup
    \/ on_shutdown
    \/ CancelledError
    \/ on_shutdown_resume
    \/ PollRead
    \/ ZoneCheck
    \/ FaultCheck
    \/ TempCheck
    \/ ForChat
    \/ SendReturn
    \/ SetState
    \/ Handle
    \/ Reply
    \/ Return

Spec == Init /\ [][Next]_vars

\* The poller and the lifecycle, with no inbound command.
NextPoll ==
    \/ on_startup
    \/ on_shutdown
    \/ CancelledError
    \/ on_shutdown_resume
    \/ PollRead
    \/ ZoneCheck
    \/ FaultCheck
    \/ TempCheck
    \/ ForChat
    \/ SendReturn
    \/ SetState

SpecPoll == Init /\ [][NextPoll]_vars

\* The command handlers interleaved with the lifecycle and with poll cycles
\* whose read fails or sees the snapshot that fires all three detectors; one
\* cycle fewer than the poller on its own runs.
PollReadAlarm == cycles < MaxCycles - 1 /\ PollReadFrom({AlarmFeed})

NextCmd ==
    \/ on_startup
    \/ on_shutdown
    \/ CancelledError
    \/ on_shutdown_resume
    \/ PollReadAlarm
    \/ ZoneCheck
    \/ FaultCheck
    \/ TempCheck
    \/ ForChat
    \/ SendReturn
    \/ SetState
    \/ Handle
    \/ Reply
    \/ Return

SpecCmd == Init /\ [][NextCmd]_vars

\* The poller and the lifecycle under the event loop's scheduling: a callback
\* that is ready runs.  The cancellation of the task and the wake-up of
\* on_shutdown are scheduled with call_soon, so neither waits for ever.  The
\* reads see the alarm snapshot, or one whose temperature float() rejects.
StopFeeds == {AlarmFeed, [AlarmFeed EXCEPT !.temperature_c = BadType]}
PollReadStop == PollReadFrom(StopFeeds)

NextStop ==
    \/ on_startup
    \/ on_shutdown
    \/ CancelledError
    \/ on_shutdown_resume
    \/ PollReadStop
    \/ ZoneCheck
    \/ FaultCheck
    \/ TempCheck
    \/ ForChat
    \/ SendReturn
    \/ SetState

\* The zone classification on its own: a distance payload and a pair of
\* thresholds are drawn, and lines 166-173 are applied to them.
Distances ==
    {Num(n) : n \in (-1)..(MaxThreshold + 1)}
        \cup {Num(DANGER_ZONE_CM + k) : k \in {-1, 0, 1}}
        \cup {Num(WARNING_ZONE_CM + k) : k \in {-1, 0, 1}}
        \cup {Missing, Bool(TRUE), Bool(FALSE), NumStr(1), NanStr, BadStr, BadType}
ThresholdPairs ==
    {t \in (1..MaxThreshold) \X (1..MaxThreshold) : t[1] <= t[2]}
        \cup {<<DANGER_ZONE_CM, WARNING_ZONE_CM>>}

InitZone ==
    /\ InitService
    /\ store = EmptyStore
    /\ \E d \in Distances, t \in ThresholdPairs :
          probe = [fn |-> "zone", dist_cm |-> d, danger |-> t[1], warning |-> t[2],
                   done |-> FALSE, zone |-> "none"]

Classify ==
    /\ probe.fn = "zone" /\ ~probe.done
    /\ probe' = [probe EXCEPT !.done = TRUE,
                              !.zone = ZoneOf(probe.dist_cm, probe.danger, probe.warning)]
    /\ UNCHANGED <<tasks, AUTHORIZED_CHAT_IDS, store, app, bg_task, h>>
    /\ UNCHANGED pollVars

NextZone == Classify

SpecZone == InitZone /\ [][NextZone]_vars

\* The status command on its own: a sender, the outcome of the store read and
\* the snapshot the store holds are drawn, and status_cmd is applied to them.
FlagFields == {"human_detected", "current_fault"}
StatusFields == SensorFields \cup FlagFields \cup CommandFields
StatusDist == {Missing, Num(0), Num(-1), Num(250), Bool(TRUE), NumStr(1), BadType}
StatusTemp ==
    {Missing, Num(TEMP_THRESHOLD - 1), Num(TEMP_THRESHOLD), NumStr(TEMP_THRESHOLD),
     NanStr, BadType}
StatusCurrent == {Missing, Num(CURRENT_THRESHOLD + 1), Bool(TRUE), BadStr}
StatusFeeds ==
    [distance_cm : StatusDist, temperature_c : StatusTemp, current_a : StatusCurrent]
StatusFlags == {[f \in FlagFields |-> p] : p \in {Missing, Num(0), Num(1)}}
\* Stores the commands leave behind: untouched, everything on, everything off.
StatusStores ==
    { EmptyStore,
      [relay_status |-> Num(1), relay_on |-> Bool(TRUE), earth_rod_status |-> Num(1),
       maintenance_mode |-> Bool(TRUE)],
      [relay_status |-> Num(0), relay_on |-> Bool(FALSE), earth_rod_status |-> Num(0),
       maintenance_mode |-> Bool(FALSE)] }

\* get_data as status_cmd sees it: the sensor feed's flags are part of the
\* snapshot.
StatusSnapshot(ok, feed, flags) ==
    [f \in StatusFields |->
        IF f \in FlagFields THEN (IF ok THEN flags[f] ELSE Missing)
        ELSE get_data(ok, feed)[f]]

InitStatus ==
    /\ InitService
    /\ store \in StatusStores
    /\ \E sender \in Senders, ok \in BOOLEAN, feed \in StatusFeeds, flags \in StatusFlags :
          probe = [fn |-> "status", sender |-> sender, ok |-> ok, feed |-> feed,
                   flags |-> flags, done |-> FALSE, raised |-> FALSE, replies |-> <<>>]

StatusCall ==
    /\ probe.fn = "status" /\ ~probe.done
    /\ LET r == status_cmd(probe.sender,
                           StatusSnapshot(probe.ok, probe.feed, probe.flags))
       IN  probe' = [probe EXCEPT !.done = TRUE, !.raised = r.raised,
                                  !.replies = r.replies]
    /\ UNCHANGED <<tasks, AUTHORIZED_CHAT_IDS, store, app, bg_task, h>>
    /\ UNCHANGED pollVars

NextStatus == StatusCall

SpecStatus == InitStatus /\ [][NextStatus]_vars

SpecStop ==
    /\ Init
    /\ [][NextStop]_vars
    /\ WF_vars(CancelledError)
    /\ WF_vars(on_shutdown_resume)

\* ------------------------------------------------------------------ claims
\* Parts of a cycle, by the position of the poll task.
InFanOut == pc \in {"for", "await", "set"}
\* The zone block of the running cycle has taken its branch.
ZoneDecided ==
    \/ InFanOut
    \/ pc \in {"fault", "temp", "sleep"}
    \/ pc = "cancelled" /\ cycles > 0
\* The overcurrent block of the running cycle has taken its branch.
FaultDecided ==
    \/ InFanOut /\ det \in {"fault", "temp"}
    \/ pc \in {"temp", "sleep"}
\* The cycle ran to its sleep.
Completed == pc = "sleep"

NotesOf(d) == SelectSeq(notes, LAMBDA n : n.det = d)

\* C1: in every cycle a zone notification is emitted iff the cycle's zone is
\* warning or danger and differs from the zone last_state held when the cycle
\* began; at most one is emitted, worded for the new zone; a cycle whose zone
\* is none emits none and leaves last_state's zone at None.
C1_ZoneEdge ==
    ZoneDecided =>
        /\ Len(NotesOf("zone")) <= 1
        /\ Len(NotesOf("zone")) = 1 <=>
               (zone \in {"warning", "danger"} /\ zone # pre.human_zone)
        /\ Len(NotesOf("zone")) = 1 => NotesOf("zone")[1].text = zone
        /\ zone = "none" => last_state.human_zone = "None"

\* C1 witness: a cycle with zone danger right after a cycle with zone none has
\* emitted the danger notification and nothing else for the zone.
C1_Witness ==
    /\ Completed
    /\ prev.valid /\ prev.zone = "none" /\ zone = "danger"
    /\ NotesOf("zone") = <<[det |-> "zone", text |-> "danger"]>>
    /\ last_state.human_zone = "danger"

\* C2: a completed cycle whose classification equals that of the cycle
\* completed just before it has emitted no notification.
C2_Idempotent ==
    (Completed /\ prev.valid /\ prev = Classification) => notes = <<>>

\* C2 witness: two cycles in a row saw danger, overcurrent and high temperature.
C2_Witness ==
    /\ Completed
    /\ prev.valid /\ prev = Classification
    /\ zone = "danger" /\ Over /\ High
    /\ notes = <<>>

\* C3: the overcurrent notification is emitted exactly when the cycle's flag
\* is true and the stored flag was false; a cycle whose flag is false leaves
\* the stored flag false; the notifications number the false->true
\* transitions of the flag.  The same for the temperature, but the count.
C3_RisingEdge ==
    /\ FaultDecided =>
          /\ Len(NotesOf("fault")) = (IF Over /\ ~pre.fault THEN 1 ELSE 0)
          /\ ~Over => ~last_state.fault
          /\ nFault = nRise
    /\ Completed =>
          /\ Len(NotesOf("temp")) = (IF High /\ ~pre.temp_high THEN 1 ELSE 0)
          /\ ~High => ~last_state.temp_high

\* C6: no poll cycle raises, whatever the sensor fields hold.
C6_NeverRaises == pc # "raised"

\* C7: a cycle whose store read failed classifies as (none, false, false),
\* emits nothing, does not raise, and leaves last_state at (None, false, false)
\* when it reaches its sleep.
C7_SoftRead ==
    readFailed =>
        /\ pc \notin {"raised", "for", "await", "set"}
        /\ Classification = [valid |-> TRUE, zone |-> "none", overcurrent |-> FALSE,
                             temp_high |-> FALSE]
        /\ notes = <<>>
        /\ Completed =>
               last_state = [human_zone |-> "None", fault |-> FALSE, temp_high |-> FALSE]

\* C7 witness: the read failed in a cycle that began with all three alerts
\* active, and the cycle reached its sleep.
C7_Witness ==
    /\ readFailed /\ Completed
    /\ pre = [human_zone |-> "danger", fault |-> TRUE, temp_high |-> TRUE]
    /\ last_state = [human_zone |-> "None", fault |-> FALSE, temp_high |-> FALSE]

\* The chats of the attempts logged for the notification in progress.
Attempted == [k \in 1..Len(sent) |-> sent[k].chat]
NonEmpty(s) == SelectSeq(s, LAMBDA c : c # "")
\* The block of detector d has run to its end in the running cycle.
BlockDone(d) ==
    CASE d = "zone" -> pc \in {"fault", "temp", "sleep"} \/ (InFanOut /\ det # "zone")
      [] d = "fault" -> pc \in {"temp", "sleep"} \/ (InFanOut /\ det = "temp")
      [] OTHER -> pc = "sleep"
\* last_state holds what the notification of detector d reported.
Recorded(d) ==
    CASE d = "zone" -> last_state.human_zone = NotesOf("zone")[1].text
      [] d = "fault" -> last_state.fault
      [] OTHER -> last_state.temp_high

C10_BetweenCycles ==
    pc = "cancelled" =>
        /\ sent = <<>> \/ Attempted = NonEmpty(AUTHORIZED_CHAT_IDS)
        /\ \A d \in {"zone", "fault", "temp"} : NotesOf(d) # <<>> => Recorded(d)

\* The table of the command layer: the fields and values each command writes,
\* and its confirmation.
TableFields(cmd) ==
    CASE cmd \in {"maintenance_on", "maintenance_off"} -> {"maintenance_mode"}
      [] cmd \in {"relay_open", "relay_close"} -> {"relay_status", "relay_on"}
      [] cmd \in {"earthrod_on", "earthrod_off"} -> {"earth_rod_status"}
      [] OTHER -> {}
TableValue(cmd, f) ==
    CASE cmd = "maintenance_on" -> Bool(TRUE)
      [] cmd = "maintenance_off" -> Bool(FALSE)
      [] cmd = "relay_open" -> IF f = "relay_status" THEN Num(0) ELSE Bool(FALSE)
      [] cmd = "relay_close" -> IF f = "relay_status" THEN Num(1) ELSE Bool(TRUE)
      [] cmd = "earthrod_on" -> Num(1)
      [] cmd = "earthrod_off" -> Num(0)
TableText(cmd) ==
    CASE cmd = "maintenance_on" -> "Maintenance mode: ON"
      [] cmd = "maintenance_off" -> "Maintenance mode: OFF"
      [] cmd = "relay_open" -> "Relay: OPEN requested"
      [] cmd = "relay_close" -> "Relay: CLOSED requested"
      [] cmd = "earthrod_on" -> "Earth rod: ENGAGE requested"
      [] cmd = "earthrod_off" -> "Earth rod: RETRACT requested"

\* A handler is called / the reply a handler awaited has returned.
Called == h.pc = "none" /\ h'.pc # "none"
Replied == h.pc = "reply" /\ h'.pc # "reply"
\* The sender is a chat, and the recipient list names it.
Listed(sender) == sender # "" /\ sender \in Range(AUTHORIZED_CHAT_IDS)

\* C4: a handler called by a sender that is not in the recipient list changes
\* no store field, makes no update_data and no get_data call, sends no reply
\* and no notification, and returns at once.
C4_Unauthorized ==
    [][(Called /\ h'.sender \notin Range(AUTHORIZED_CHAT_IDS)) =>
          /\ store' = store
          /\ h'.writes = <<>> /\ h'.reads = 0 /\ h'.replies = <<>>
          /\ h'.pc = "done"
          /\ sent' = sent]_vars

\* C4 witness: after poll cycles and a command that set the maintenance mode,
\* the unlisted chat "x" has sent relay_open and the handler is back.
C4_Witness ==
    /\ h.pc = "done" /\ h.sender = "x" /\ h.cmd = "relay_open"
    /\ cycles > 1
    /\ store["maintenance_mode"] = Bool(TRUE)
    /\ store["relay_status"] = Missing

\* C5: a handler called by a listed chat changes only the fields of its table
\* row, to the row's values, through one update_data call (none for start and
\* status), before any reply; the reply it then awaits is its only one, goes
\* to the sender, carries the row's confirmation, and comes with no store
\* change; no step of the handler sends a notification to the recipients.
C5_TableFrame ==
    [][/\ (Called /\ Listed(h'.sender)) =>
            /\ \A f \in CommandFields :
                   \/ store'[f] = store[f]
                   \/ f \in TableFields(h'.cmd) /\ store'[f] = TableValue(h'.cmd, f)
            /\ h'.cmd \notin Mutating => h'.writes = <<>>
            /\ h'.cmd \in Mutating =>
                   /\ Len(h'.writes) = 1
                   /\ DOMAIN h'.writes[1].pairs = TableFields(h'.cmd)
                   /\ h'.writes[1].ok =>
                          \A f \in TableFields(h'.cmd) :
                              store'[f] = TableValue(h'.cmd, f)
            /\ h'.replies = <<>> /\ h'.pc = "reply"
            /\ sent' = sent
       /\ (Replied /\ Listed(h.sender)) =>
            /\ store' = store /\ h'.writes = h.writes
            /\ Len(h'.replies) = 1
            /\ h'.replies[1].to = h.sender
            /\ h.cmd \in Mutating => h'.replies[1].text = TableText(h.cmd)
            /\ sent' = sent]_vars

\* C5 witness: relay_close from the listed chat "a" has been confirmed; both
\* relay fields are set and the maintenance mode set earlier is still there.
C5_Witness ==
    /\ h.pc = "done" /\ h.sender = "a" /\ h.cmd = "relay_close"
    /\ Len(h.replies) = 1 /\ h.replies[1].to = "a" /\ h.replies[1].ok
    /\ store["relay_status"] = Num(1) /\ store["relay_on"] = Bool(TRUE)
    /\ store["maintenance_mode"] = Bool(TRUE)
    /\ store["earth_rod_status"] = Missing

\* C8: when the write of a mutating command from a listed chat fails, the
\* store is unchanged, the handler goes on to its reply, and that reply is
\* the command's confirmation.
C8_SoftWrite ==
    [][/\ (Called /\ Listed(h'.sender) /\ h'.cmd \in Mutating /\ ~h'.writes[1].ok) =>
            store' = store /\ h'.pc = "reply"
       /\ (Replied /\ Listed(h.sender) /\ h.cmd \in Mutating /\ ~h.writes[1].ok) =>
            /\ store' = store
            /\ Len(h'.replies) = 1
            /\ h'.replies[1].to = h.sender
            /\ h'.replies[1].text = TableText(h.cmd)]_vars

\* C8 witness: the write of relay_close failed after relay_open had succeeded;
\* the sender has the confirmation and the store still shows the relay open.
C8_Witness ==
    /\ h.pc = "done" /\ h.sender = "a" /\ h.cmd = "relay_close"
    /\ Len(h.writes) = 1 /\ ~h.writes[1].ok
    /\ h.replies = <<[to |-> "a", text |-> "Relay: CLOSED requested", ok |-> TRUE]>>
    /\ store["relay_status"] = Num(0) /\ store["relay_on"] = Bool(FALSE)

\* C11: when shutdown is invoked while the poll task is running, the task's
\* cancellation is requested and on_shutdown awaits the task; the task then
\* ends, and on_shutdown completes; the application is stopped only once the
\* task has ended; and a task ended by cancellation sends nothing more.
C11_ShutdownSequence ==
    /\ [][(app = "up" /\ app' # "up" /\ TaskRunning) =>
             (CancelRequested' /\ pc' = pc /\ sent' = sent)]_vars
    /\ (CancelRequested /\ TaskRunning) ~> (pc = "cancelled")
    /\ CancelRequested ~> (app = "down")
    /\ [](app = "down" => pc = "cancelled")
    /\ [][pc = "cancelled" =>
             (pc' = "cancelled" /\ sent' = sent /\ notes' = notes)]_vars

\* C11 witness: shutdown was invoked during the fan-out of the danger
\* notification; the task has ended and the application is stopped.
C11_Witness ==
    /\ app = "down" /\ pc = "cancelled"
    /\ AUTHORIZED_CHAT_IDS = <<"a", "b">>
    /\ NotesOf("zone") # <<>> /\ det = "zone"
    /\ Len(sent) = 1

\* What a store read that succeeds shows for a command-written field.
ReadBack(f) == get_data(TRUE, AlarmFeed)[f]
\* The step is a relay handler called by an authorized sender whose write
\* succeeded.
RelayWrite(cmd) ==
    /\ Called
    /\ h'.cmd = cmd /\ is_authorized(h'.sender)
    /\ Len(h'.writes) = 1 /\ h'.writes[1].ok

\* C12: right after an authorized relay_close whose write succeeded a store
\* read shows relay_status = 1 and relay_on = true, after relay_open 0 and
\* false; every other step leaves what a read shows for the two fields
\* unchanged, so the last relay command that was written determines both.
C12_RoundTrip ==
    [][/\ RelayWrite("relay_close") =>
            /\ ReadBack("relay_status")' = Num(1)
            /\ ReadBack("relay_on")' = Bool(TRUE)
       /\ RelayWrite("relay_open") =>
            /\ ReadBack("relay_status")' = Num(0)
            /\ ReadBack("relay_on")' = Bool(FALSE)
       /\ ~(RelayWrite("relay_close") \/ RelayWrite("relay_open")) =>
            /\ ReadBack("relay_status")' = ReadBack("relay_status")
            /\ ReadBack("relay_on")' = ReadBack("relay_on")]_vars

\* C12 witness: a status command reads the store after relay_close was
\* written and the earth rod command that followed it; both relay fields
\* show the closed relay.
C12_Witness ==
    /\ h.cmd = "status" /\ h.sender = "a" /\ h.reads = 1
    /\ ReadBack("earth_rod_status") = Num(1)
    /\ ReadBack("relay_status") = Num(1) /\ ReadBack("relay_on") = Bool(TRUE)

\* C13: for every distance payload d and thresholds danger <= warning the
\* zone is danger iff d is a number with 0 < d <= danger, warning iff d is a
\* number with danger < d <= warning, and none otherwise (d <= 0, d above
\* warning, missing, or not a number).
C13_Classification ==
    (probe.fn = "zone" /\ probe.done) =>
        LET d == probe.dist_cm
            number == d.kind \in {"num", "bool"}
        IN  /\ probe.zone = "danger" <=>
                   (number /\ 0 < d.val /\ d.val <= probe.danger)
            /\ probe.zone = "warning" <=>
                   (number /\ probe.danger < d.val /\ d.val <= probe.warning)
            /\ probe.zone = "none" <=>
                   (~number \/ d.val <= 0 \/ d.val > probe.warning)

\* C13 witness: with the thresholds of the program, the distance 500 has been
\* classified as danger.
C13_Witness ==
    /\ probe.fn = "zone" /\ probe.done
    /\ probe.danger = DANGER_ZONE_CM /\ probe.warning = WARNING_ZONE_CM
    /\ probe.dist_cm = Num(DANGER_ZONE_CM)
    /\ probe.zone = "danger"

\* The snapshot the drawn status call reads, and the line of its report
\* with the given label.
Snapshot == StatusSnapshot(probe.ok, probe.feed, probe.flags)
ReportLine(label) ==
    LET r == probe.replies[1]
    IN  r[CHOOSE k \in 1..Len(r) : r[k].label = label]
Reported == probe.fn = "status" /\ probe.done /\ Listed(probe.sender)

\* C14: for a listed sender and every snapshot, the read having failed or
\* not, status_cmd does not raise and passes one report to reply_text; the
\* distance line is N/A exactly when distance_cm is missing, not a number or
\* not positive; the current and temperature lines are N/A exactly when
\* their field is missing or not a number.
C14_StatusTotal ==
    Reported =>
        /\ ~probe.raised
        /\ Len(probe.replies) = 1
        /\ ReportLine("Distance").na <=>
               ~(Snapshot["distance_cm"].kind \in {"num", "bool"}
                   /\ Snapshot["distance_cm"].val > 0)
        /\ ReportLine("Current").na <=>
               Snapshot["current_a"].kind \notin {"num", "bool"}
        /\ ReportLine("Temperature").na <=>
               Snapshot["temperature_c"].kind \notin {"num", "bool"}

\* C14 witness: the store read failed and the listed chat "a" got a report
\* whose three readings are N/A.
C14_Witness ==
    /\ Reported /\ probe.sender = "a" /\ ~probe.ok
    /\ probe.feed = [distance_cm |-> Num(250), temperature_c |-> Num(TEMP_THRESHOLD),
                     current_a |-> Num(CURRENT_THRESHOLD + 1)]
    /\ Len(probe.replies) = 1
    /\ ReportLine("Distance").na /\ ReportLine("Current").na
    /\ ReportLine("Temperature").na

\* C15: when a cycle has run to its sleep, last_state holds the cycle's
\* classification: its zone, its overcurrent flag and its temperature flag.
C15_TracksCycle ==
    Completed =>
        /\ last_state.human_zone = (IF zone = "none" THEN "None" ELSE zone)
        /\ last_state.fault = Over
        /\ last_state.temp_high = High

\* last_state as the running cycle leaves it once its three blocks have run.
CycleOutcome ==
    [human_zone |-> IF zone = "none" THEN "None" ELSE zone,
     fault |-> IF Over THEN TRUE
               ELSE IF Le(current, CURRENT_THRESHOLD) THEN FALSE ELSE pre.fault,
     temp_high |-> IF High THEN TRUE
                   ELSE IF Lt(temp, TEMP_THRESHOLD) THEN FALSE ELSE pre.temp_high]

\* C16: while a cycle is parked at the delivery of a message, last_state is
\* not half-updated: it is as the cycle found it, or as the cycle leaves it.
C16_NoPartialUpdate ==
    pc = "await" => (last_state = pre \/ last_state = CycleOutcome)

\* C17: in every cycle each detector's notification is a function of its own
\* pair alone: the zone notification of the cycle's zone and the stored zone,
\* the overcurrent notification of the cycle's overcurrent flag and the
\* stored flag, the temperature notification of the cycle's temperature flag
\* and the stored flag; a cycle emits at most one notification per detector.
C17_Independence ==
    /\ ZoneDecided =>
          Len(NotesOf("zone")) =
              (IF zone # "none" /\ zone # pre.human_zone THEN 1 ELSE 0)
    /\ FaultDecided =>
          Len(NotesOf("fault")) = (IF Over /\ ~pre.fault THEN 1 ELSE 0)
    /\ Completed =>
          Len(NotesOf("temp")) = (IF High /\ ~pre.temp_high THEN 1 ELSE 0)
    /\ Len(notes) = Len(NotesOf("zone")) + Len(NotesOf("fault")) + Len(NotesOf("temp"))

\* C17 witness: one cycle has emitted three notifications, one per detector,
\* and a cycle before it had emitted the overcurrent one alone.
C17_Witness ==
    /\ Completed
    /\ Len(notes) = 3
    /\ Len(NotesOf("zone")) = 1 /\ Len(NotesOf("fault")) = 1 /\ Len(NotesOf("temp")) = 1
    /\ nFault = 2

\* The notifications of a cycle that found last_state as s and classified
\* its snapshot as z, over, high.
CycleNotes(s, z, over, high) ==
    (IF z # "none" /\ z # s.human_zone THEN <<[det |-> "zone", text |-> z]>> ELSE <<>>)
        \o (IF over /\ ~s.fault THEN <<[det |-> "fault", text |-> "overcurrent"]>> ELSE <<>>)
        \o (IF high /\ ~s.temp_high THEN <<[det |-> "temp", text |-> "hightemp"]>> ELSE <<>>)
\* A step of a command handler: its call, the return of its reply, its return.
HandlerStep == h' # h

\* C18: no step of a command handler changes last_state or anything else of
\* the poll task, at whichever await of the cycle it runs; and a completed
\* cycle has emitted the notifications that follow from last_state as it
\* found it and from its own classification, whatever commands were handled
\* during it.
C18_SingleWriter ==
    /\ [][HandlerStep => UNCHANGED pollVars]_vars
    /\ [](Completed => notes = CycleNotes(pre, zone, Over, High))
    /\ [](pc \in {"zone", "fault", "temp"} =>
             \A k \in 1..Len(notes) : notes[k] = CycleNotes(pre, zone, Over, High)[k])

\* C18 witness: relay_open was handled while the cycle was parked at the
\* delivery of its overcurrent notification, the second of the cycle.
C18_Witness ==
    /\ pc = "await" /\ det = "fault" /\ Len(notes) = 2
    /\ h.pc = "done" /\ h.cmd = "relay_open" /\ h.sender = "a"
    /\ store["relay_status"] = Num(0)
    /\ last_state = [human_zone |-> "danger", fault |-> FALSE, temp_high |-> FALSE]

\* The senders is_authorized accepts, and the chats a notification goes to.
AuthorizedSenders == {c \in Senders \cup Chats : is_authorized(c)}
Recipients == {c \in Range(AUTHORIZED_CHAT_IDS) : c # ""}

\* C19: a command from an update with no chat (chat_id "") is not authorized
\* and writes nothing to the store, whatever the recipient list holds; the
\* senders that are authorized are the chats that receive the notifications.
C19_NoIdentity ==
    (h.pc # "none" /\ h.sender = "") =>
        /\ ~is_authorized("")
        /\ h.writes = <<>> /\ h.pc = "done"
        /\ AuthorizedSenders = Recipients

\* C20: whatever the sequence of startup and shutdown events, at most one
\* poll task has been created and not ended, and the task bg_task names is
\* that one.
C20_OnePoller ==
    /\ tasks <= 1
    /\ tasks = (IF TaskRunning THEN 1 ELSE 0)

\* C20 witness: the service was started, shut down and started again; the
\* task of the first start was cancelled and no other task was created.
C20_Witness ==
    /\ app = "up" /\ bg_task = "task" /\ pc = "cancelled"
    /\ cycles > 0
    /\ tasks = 0

====
